---- MODULE Spec2Model ----
(***************************************************************************)
(* Model of mcp/app/infrastructure/github/post.py: the GitHub uploader     *)
(* (upload_files_to_github), the directory scanner                          *)
(* (prepare_files_from_directory) and the entry point that chains them      *)
(* (initialize_github_upload).                                              *)
(*                                                                          *)
(* Strings that the code takes apart (paths) are sequences of tokens: a     *)
(* token is a run of characters holding no separator, or one separator      *)
(* character ("/" or "\\").  File contents are sequences of code points     *)
(* (text) or of byte values (bytes on disk, bytes to encode).               *)
(***************************************************************************)
EXTENDS Integers, Sequences, FiniteSets, TLC

VARIABLES
    files,      \* the list of file records the uploader iterates over
    message,    \* commit_message argument
    branch,     \* branch argument
    i,          \* 1-based position of the file the for loop is at
    pc,         \* position in the code
    data,       \* the request body built for the current file
    results,    \* results list
    errors,     \* errors list
    report,     \* the value returned by upload_files_to_github
    trace,      \* what was observed from outside: requests with their
                \* responses, and the outcome recorded for each position
    entry,      \* the function that was called
    fs,         \* the items under the local directory
    sep,        \* the host's path separator
    remote,     \* remote_directory argument
    todo        \* the items base_path.rglob('*') has yet to yield

scan == <<entry, fs, sep, remote, todo>>

vars == <<files, message, branch, i, pc, data, results, errors, report, trace, scan>>

\* The largest number of file records in an input list.
MaxFiles == 2

(***************************************************************************)
(* Text conversions                                                         *)
(***************************************************************************)

\* str.lower() on an encoding name.
Lower(s) == IF s \in {"BASE64", "Base64"} THEN "base64" ELSE s

\* The codecs content.encode(encoding) can look up.
KnownCodecs == {"utf-8"}

\* A lone surrogate cannot be encoded as UTF-8 (UnicodeEncodeError).
IsSurrogate(c) == c >= 55296 /\ c <= 57343

CanEncode(text) == \A k \in 1..Len(text) : ~IsSurrogate(text[k])

\* The UTF-8 bytes of one code point below 65536.
UTF8Char(c) ==
    IF c < 128 THEN <<c>>
    ELSE IF c < 2048 THEN <<192 + (c \div 64), 128 + (c % 64)>>
    ELSE <<224 + (c \div 4096), 128 + ((c \div 64) % 64), 128 + (c % 64)>>

RECURSIVE UTF8Encode(_)
UTF8Encode(text) ==
    IF text = <<>> THEN <<>>
    ELSE UTF8Char(Head(text)) \o UTF8Encode(Tail(text))

\* The code point of the n-th character of the base64 alphabet A-Za-z0-9+/.
B64Char(n) ==
    IF n < 26 THEN 65 + n
    ELSE IF n < 52 THEN 97 + (n - 26)
    ELSE IF n < 62 THEN 48 + (n - 52)
    ELSE IF n = 62 THEN 43 ELSE 47

\* base64.b64encode(bytes).decode('utf-8'): the text of the base64 encoding,
\* padded with "=" (61).
RECURSIVE B64Encode(_)
B64Encode(b) ==
    IF Len(b) = 0 THEN <<>>
    ELSE IF Len(b) = 1 THEN
        <<B64Char(b[1] \div 4), B64Char((b[1] % 4) * 16), 61, 61>>
    ELSE IF Len(b) = 2 THEN
        <<B64Char(b[1] \div 4), B64Char((b[1] % 4) * 16 + (b[2] \div 16)),
          B64Char((b[2] % 16) * 4), 61>>
    ELSE
        <<B64Char(b[1] \div 4), B64Char((b[1] % 4) * 16 + (b[2] \div 16)),
          B64Char((b[2] % 16) * 4 + (b[3] \div 64)), B64Char(b[3] % 64)>>
        \o B64Encode(SubSeq(b, 4, Len(b)))

(***************************************************************************)
(* File records and HTTP responses                                          *)
(***************************************************************************)

\* dict.get(key, default)
Get(d, key, default) == IF key \in DOMAIN d THEN d[key] ELSE default

Unknown == <<"unknown">>

\* The file records input lists are drawn from: text to encode ("Man", and
\* "M" with an accented letter under no encoding key), content that is base64
\* already ("TWFu"), and records whose preparation fails (a lone surrogate, an
\* unknown codec, no path key).
FileRecords ==
    { [path |-> <<"a.txt">>, content |-> <<77, 97, 110>>, encoding |-> "utf-8"],
      [path |-> <<"sub", "/", "b.txt">>, content |-> <<77, 233>>],
      [path |-> <<"c.bin">>, content |-> <<84, 87, 70, 117>>, encoding |-> "base64"],
      [path |-> <<"d.txt">>, content |-> <<55296>>, encoding |-> "utf-8"],
      [path |-> <<"e.txt">>, content |-> <<77>>, encoding |-> "bogus"],
      [content |-> <<77>>, encoding |-> "utf-8"] }

RECURSIVE ListsOf(_, _)
ListsOf(S, n) ==
    IF n = 0 THEN {<<>>}
    ELSE LET shorter == ListsOf(S, n - 1)
         IN  shorter \cup {Append(l, r) : l \in {s \in shorter : Len(s) = n - 1}, r \in S}

\* The (commit_message, branch) pair of a direct call: a caller's own, not
\* the defaults of lines 14-15.  initialize_github_upload passes "Initial
\* commit" and leaves the branch at its default.
CallArgs == { [message |-> "Update docs", branch |-> "dev"] }

Raise(m) == [kind |-> "raise", msg |-> m]
Resp(s, b) == [kind |-> "resp", status |-> s, json |-> TRUE, body |-> b]
RespNoJson(s) == [kind |-> "resp", status |-> s, json |-> FALSE]

\* What requests.get can do: raise, answer 404 or 500, answer 200 with a sha,
\* answer 200 with a body that has no sha (a directory listing).
GetResponses ==
    { Raise("ConnectionError"),
      Resp(404, [message |-> "Not Found"]),
      Resp(500, [message |-> "Server Error"]),
      Resp(200, [sha |-> "s1"]),
      Resp(200, [sha |-> "s2"]),
      Resp(200, [entries |-> "listing"]) }

\* What requests.put can do: raise, answer 200/201/409 with a JSON body,
\* answer 201/409 with a body that is not JSON.
PutResponses ==
    { Raise("ConnectionError"),
      Resp(200, [content |-> "updated"]),
      Resp(201, [content |-> "created"]),
      Resp(409, [message |-> "conflict"]),
      RespNoJson(201),
      RespNoJson(409) }

(***************************************************************************)
(* upload_files_to_github                                                   *)
(***************************************************************************)

Ok(v) == [ok |-> TRUE, value |-> v]
Fail(m) == [ok |-> FALSE, error |-> m]

\* EncodeContent without the base64 case: everything is encoded again.
EncodeContentAlways(content, encoding) ==
    IF encoding \notin KnownCodecs \cup {"base64"} THEN Fail("unknown encoding")
    ELSE IF ~CanEncode(content) THEN Fail("surrogates not allowed")
    ELSE Ok(B64Encode(UTF8Encode(content)))

\* Lines 47-50: content that is base64 already goes as it is, anything else
\* is encoded with the record's codec and then base64-encoded.
EncodeContent(content, encoding) ==
    IF Lower(encoding) = "base64" THEN Ok(content)
    ELSE IF encoding \notin KnownCodecs THEN Fail("unknown encoding")
    ELSE IF ~CanEncode(content) THEN Fail("surrogates not allowed")
    ELSE Ok(B64Encode(UTF8Encode(content)))

\* Lines 42-56: the request body for a file record, or the exception raised.
PrepareData(file, msg, br) ==
    IF "path" \notin DOMAIN file THEN Fail("'path'")
    ELSE IF "content" \notin DOMAIN file THEN Fail("'content'")
    ELSE LET enc == EncodeContent(file.content, Get(file, "encoding", "utf-8"))
         IN  IF ~enc.ok THEN enc
             ELSE Ok([message |-> msg, content |-> enc.value, branch |-> br])

\* response.json()
Json(response) == IF response.json THEN Ok(response.body) ELSE Fail("Expecting value")

\* WithSha without the test of the status: the sha is read from every answer.
WithShaUnchecked(d, response) ==
    IF ~response.json THEN Fail("Expecting value")
    ELSE IF "sha" \notin DOMAIN response.body THEN Fail("'sha'")
    ELSE Ok([message |-> d.message, content |-> d.content, branch |-> d.branch,
             sha |-> response.body.sha])

\* WithSha sending one fixed sha instead of the one the check returned.
WithShaFixed(d, response) ==
    IF response.status # 200 THEN Ok(d)
    ELSE IF ~response.json THEN Fail("Expecting value")
    ELSE IF "sha" \notin DOMAIN response.body THEN Fail("'sha'")
    ELSE Ok([message |-> d.message, content |-> d.content, branch |-> d.branch,
             sha |-> "s1"])

\* Lines 62-63: the request body after the existence check, or the exception
\* raised by response.json()["sha"].
WithSha(d, response) ==
    IF response.status # 200 THEN Ok(d)
    ELSE IF ~response.json THEN Fail("Expecting value")
    ELSE IF "sha" \notin DOMAIN response.body THEN Fail("'sha'")
    ELSE Ok([message |-> d.message, content |-> d.content, branch |-> d.branch,
             sha |-> response.body.sha])

\* IsSuccess taking 200 alone for a success.
IsSuccessOnly200(status) == status = 200

\* Line 69
IsSuccess(status) == status \in {200, 201}

\* OnException recording nothing.
OnExceptionSwallow(errs, file, m) == errs

\* Lines 83-88
OnException(errs, file, m) ==
    Append(errs, [path |-> Get(file, "path", Unknown), status |-> "exception",
                  error |-> m])

\* Report calling the batch a success as soon as one file was uploaded.
ReportAnyUploaded(res, errs) ==
    [success |-> Len(res) > 0, results |-> res, errors |-> errs,
     uploaded_count |-> Len(res), error_count |-> Len(errs)]

\* Lines 90-96
Report(res, errs) ==
    [success |-> Len(errs) = 0, results |-> res, errors |-> errs,
     uploaded_count |-> Len(res), error_count |-> Len(errs)]

NoData == [message |-> "", content |-> <<>>, branch |-> ""]
NoReport == [returned |-> FALSE]

\* Line 40: the for loop moves to the next record, or ends.
PcAt(idx) == IF idx > Len(files) THEN "return" ELSE "prepare"

Outcome(status) == [op |-> "OUT", idx |-> i, status |-> status]

\* Handle leaving the loop at the first exception.
HandleAbort(evs, m) ==
    /\ errors' = OnException(errors, files[i], m)
    /\ trace' = trace \o evs \o <<Outcome("exception")>>
    /\ i' = Len(files) + 1
    /\ pc' = "return"
    /\ data' = NoData
    /\ UNCHANGED <<scan, files, message, branch, results, report>>

\* Handle starting the same file again instead of recording the exception.
HandleRetry(evs, m) ==
    /\ trace' = trace \o evs
    /\ pc' = "prepare"
    /\ data' = NoData
    /\ UNCHANGED <<scan, files, message, branch, i, results, errors, report>>

\* The except clause, lines 83-88, and on to the next file. evs are the
\* requests observed in the step that raised.
Handle(evs, m) ==
    /\ errors' = OnException(errors, files[i], m)
    /\ trace' = trace \o evs \o <<Outcome("exception")>>
    /\ i' = i + 1
    /\ pc' = PcAt(i + 1)
    /\ data' = NoData
    /\ UNCHANGED <<scan, files, message, branch, results, report>>

\* Lines 42-56
Prepare ==
    /\ pc = "prepare"
    /\ LET p == PrepareData(files[i], message, branch)
       IN  IF p.ok
           THEN /\ data' = p.value
                /\ pc' = "get"
                /\ UNCHANGED <<scan, files, message, branch, i, results, errors, report, trace>>
           ELSE Handle(<<>>, p.error)

\* Lines 59-63: the existence check.
Check ==
    /\ pc = "get"
    /\ \E r \in GetResponses :
         LET ev == [op |-> "GET", idx |-> i, path |-> files[i].path, resp |-> r]
             d == IF r.kind = "raise" THEN Fail(r.msg) ELSE WithSha(data, r)
         IN  IF d.ok
             THEN /\ data' = d.value
                  /\ trace' = Append(trace, ev)
                  /\ pc' = "put"
                  /\ UNCHANGED <<scan, files, message, branch, i, results, errors, report>>
             ELSE Handle(<<ev>>, d.error)

\* Lines 66-88: the write request and the classification of its response.
Upload ==
    /\ pc = "put"
    /\ \E r \in PutResponses :
         LET ev == [op |-> "PUT", idx |-> i, path |-> files[i].path, data |-> data,
                    resp |-> r]
             body == IF r.kind = "raise" THEN Fail(r.msg) ELSE Json(r)
         IN  IF ~body.ok
             THEN Handle(<<ev>>, body.error)
             ELSE /\ i' = i + 1
                  /\ pc' = PcAt(i + 1)
                  /\ data' = NoData
                  /\ UNCHANGED <<scan, files, message, branch, report>>
                  /\ IF IsSuccess(r.status)
                     THEN /\ results' = Append(results, [path |-> files[i].path,
                                                         status |-> "success",
                                                         response |-> body.value])
                          /\ trace' = trace \o <<ev, Outcome("success")>>
                          /\ UNCHANGED errors
                     ELSE /\ errors' = Append(errors, [path |-> files[i].path,
                                                       status |-> "error",
                                                       error |-> body.value,
                                                       status_code |-> r.status])
                          /\ trace' = trace \o <<ev, Outcome("error")>>
                          /\ UNCHANGED results

\* Lines 90-96
Return ==
    /\ pc = "return"
    /\ report' = Report(results, errors)
    /\ pc' = "done"
    /\ UNCHANGED <<scan, files, message, branch, i, data, results, errors, trace>>

(***************************************************************************)
(* prepare_files_from_directory and initialize_github_upload                *)
(***************************************************************************)

\* One character's code point from UTF-8 bytes at the head of b, with the
\* number of bytes it takes; n = 0 when the bytes are not valid UTF-8.
IsCont(b, k) == Len(b) >= k /\ b[k] >= 128 /\ b[k] <= 191

UTF8Head(b) ==
    IF b[1] < 128 THEN [n |-> 1, c |-> b[1]]
    ELSE IF b[1] >= 194 /\ b[1] <= 223 /\ IsCont(b, 2)
    THEN [n |-> 2, c |-> (b[1] - 192) * 64 + (b[2] - 128)]
    ELSE IF b[1] >= 224 /\ b[1] <= 239 /\ IsCont(b, 2) /\ IsCont(b, 3)
            /\ (b[1] = 224 => b[2] >= 160) /\ (b[1] = 237 => b[2] <= 159)
    THEN [n |-> 3, c |-> (b[1] - 224) * 4096 + (b[2] - 128) * 64 + (b[3] - 128)]
    ELSE [n |-> 0, c |-> 0]

\* Lines 123-124: open(item, 'r', encoding='utf-8').read(): the text, or
\* UnicodeDecodeError.
RECURSIVE UTF8Decode(_)
UTF8Decode(b) ==
    IF b = <<>> THEN Ok(<<>>)
    ELSE LET h == UTF8Head(b)
         IN  IF h.n = 0 THEN Fail("invalid start byte")
             ELSE LET rest == UTF8Decode(SubSeq(b, h.n + 1, Len(b)))
                  IN  IF rest.ok THEN Ok(<<h.c>> \o rest.value) ELSE rest

\* The separators pathlib splits a string at on a host.
PathSeps(s) == IF s = "\\" THEN {"/", "\\"} ELSE {"/"}

\* Path(string).parts: the names between separators.
RECURSIVE PartsFrom(_, _, _)
PartsFrom(str, seps, cur) ==
    LET flush == IF cur = <<>> THEN <<>> ELSE <<cur>>
    IN  IF str = <<>> THEN flush
        ELSE IF Head(str) \in seps THEN flush \o PartsFrom(Tail(str), seps, <<>>)
        ELSE PartsFrom(Tail(str), seps, Append(cur, Head(str)))

Parts(str, s) == PartsFrom(str, PathSeps(s), <<>>)

\* str(path): the names joined with the host's separator.
RECURSIVE StrPath(_, _)
StrPath(names, s) ==
    IF names = <<>> THEN <<>>
    ELSE IF Len(names) = 1 THEN names[1]
    ELSE names[1] \o <<s>> \o StrPath(Tail(names), s)

\* str.replace(old, new) for one-character old and new.
Replace(str, old, new) == [k \in 1..Len(str) |-> IF str[k] = old THEN new ELSE str[k]]

\* RemotePath without the replacement of line 127.
RemotePathNoReplace(prefix, rel, s) ==
    IF prefix # <<>> THEN StrPath(Parts(prefix, s) \o rel, s) ELSE StrPath(rel, s)

\* Lines 119-120 and 127: the record's path for the item at rel under the root.
RemotePath(prefix, rel, s) ==
    Replace(IF prefix # <<>> THEN StrPath(Parts(prefix, s) \o rel, s)
            ELSE StrPath(rel, s),
            "\\", "/")

\* The items that can lie under the local directory: a.txt ("Man"), the
\* directory sub, sub/b.txt ("M" and an accented letter), a file whose name
\* holds a backslash, and a file that is not UTF-8 text.
Items ==
    { [rel |-> << <<"a.txt">> >>, kind |-> "file", bytes |-> <<77, 97, 110>>],
      [rel |-> << <<"sub">> >>, kind |-> "dir", bytes |-> <<>>],
      [rel |-> << <<"sub">>, <<"b.txt">> >>, kind |-> "file", bytes |-> <<77, 195, 169>>],
      [rel |-> << <<"x", "\\", "y">> >>, kind |-> "file", bytes |-> <<120>>],
      [rel |-> << <<"bin.dat">> >>, kind |-> "file", bytes |-> <<255, 254>>] }

RegularFiles(tree) == {it \in tree : it.kind = "file"}

\* A name is a name of the host when it holds none of its separators.
NameOnHost(name, s) == \A k \in 1..Len(name) : name[k] \notin PathSeps(s)

\* The directory trees of a host: every item's parent is in the tree, and
\* every name is one the host allows.
Trees(s) ==
    { t \in SUBSET Items :
        /\ Cardinality(RegularFiles(t)) <= MaxFiles
        /\ \A it \in t :
             /\ \A k \in 1..Len(it.rel) : NameOnHost(it.rel[k], s)
             /\ Len(it.rel) > 1 =>
                  \E d \in t : d.kind = "dir" /\ d.rel = SubSeq(it.rel, 1, Len(it.rel) - 1) }

\* The remote_directory strings prepare_files_from_directory is given: none,
\* "mcp", "pre/q".
Remotes == { <<>>, <<"mcp">>, <<"pre", "/", "q">> }

\* The directory_name of initialize_github_upload (line 164).
DirectoryName == <<"mcp">>

\* Line 117
IsFile(item) == item.kind = "file"

\* Lines 116-130: rglob yields the next item; a regular file is read and its
\* record appended; a read failure propagates out of the call.
ScanItem ==
    /\ pc = "scan"
    /\ \E item \in todo :
         /\ todo' = todo \ {item}
         /\ UNCHANGED <<entry, fs, sep, remote>>
         /\ UNCHANGED <<message, branch, i, data, results, errors, report, trace>>
         /\ IF ~IsFile(item)
            THEN UNCHANGED <<files, pc>>
            ELSE LET text == UTF8Decode(item.bytes)
                 IN  IF text.ok
                     THEN /\ files' = Append(files,
                                 [path |-> RemotePath(remote, item.rel, sep),
                                  content |-> text.value,
                                  encoding |-> "utf-8"])
                          /\ UNCHANGED pc
                     ELSE /\ pc' = "raised"
                          /\ UNCHANGED files

\* Line 132, and for initialize_github_upload lines 146-152: the call of
\* upload_files_to_github with the scanned records.
ScanReturn ==
    /\ pc = "scan"
    /\ todo = {}
    /\ pc' = IF entry = "initialize_github_upload" THEN PcAt(1) ELSE "prepared"
    /\ UNCHANGED <<scan, files, message, branch, i, data, results, errors, report, trace>>

\* A call of prepare_files_from_directory(local, remote), or of
\* initialize_github_upload(token, owner, repo, directory_name).
InitDir ==
    /\ entry \in {"prepare_files_from_directory", "initialize_github_upload"}
    /\ sep \in {"/", "\\"}
    /\ fs \in Trees(sep)
    /\ remote \in (IF entry = "initialize_github_upload" THEN {DirectoryName} ELSE Remotes)
    /\ todo = fs
    /\ files = <<>>
    /\ message = "Initial commit"
    /\ branch = "main"
    /\ i = 1
    /\ pc = "scan"
    /\ data = NoData
    /\ results = <<>>
    /\ errors = <<>>
    /\ report = NoReport
    /\ trace = <<>>

NextDir == ScanItem \/ ScanReturn \/ Prepare \/ Check \/ Upload \/ Return

SpecDir == InitDir /\ [][NextDir]_vars

\* A call of upload_files_to_github(token, owner, repo, files, message, branch).
Init ==
    /\ entry = "upload_files_to_github"
    /\ fs = {}
    /\ sep = "/"
    /\ remote = <<>>
    /\ todo = {}
    /\ files \in ListsOf(FileRecords, MaxFiles)
    /\ \E a \in CallArgs : message = a.message /\ branch = a.branch
    /\ i = 1
    /\ pc = PcAt(1)
    /\ data = NoData
    /\ results = <<>>
    /\ errors = <<>>
    /\ report = NoReport
    /\ trace = <<>>

Next == Prepare \/ Check \/ Upload \/ Return

Spec == Init /\ [][Next]_vars

(***************************************************************************)
(* Properties                                                               *)
(***************************************************************************)

Positions == 1..Len(trace)
Gets(k) == {n \in Positions : trace[n].op = "GET" /\ trace[n].idx = k}
Puts(k) == {n \in Positions : trace[n].op = "PUT" /\ trace[n].idx = k}
Outs(k) == {n \in Positions : trace[n].op = "OUT" /\ trace[n].idx = k}
Successes(n) == {m \in 1..n : trace[m].op = "OUT" /\ trace[m].status = "success"}
Failures(n) == {m \in 1..n : trace[m].op = "OUT" /\ trace[m].status # "success"}
Returned == pc = "done"

\* The entry of results or errors that the outcome at trace position n added.
Entry(n) ==
    IF trace[n].status = "success" THEN results[Cardinality(Successes(n))]
    ELSE errors[Cardinality(Failures(n))]

\* The outcome the specification gives a write response.
Classify(r) ==
    IF r.kind = "raise" THEN "exception"
    ELSE IF ~r.json THEN "exception"
    ELSE IF r.status = 200 \/ r.status = 201 THEN "success"
    ELSE "error"

\* The value of a base64 character, and the bytes a base64 text stands for.
B64Val(c) ==
    IF c >= 65 /\ c <= 90 THEN c - 65
    ELSE IF c >= 97 /\ c <= 122 THEN c - 71
    ELSE IF c >= 48 /\ c <= 57 THEN c + 4
    ELSE IF c = 43 THEN 62 ELSE 63

RECURSIVE B64Decode(_)
B64Decode(t) ==
    IF Len(t) < 4 THEN <<>>
    ELSE LET v1 == B64Val(t[1])
             v2 == B64Val(t[2])
             v3 == B64Val(t[3])
             v4 == B64Val(t[4])
             b1 == v1 * 4 + (v2 \div 16)
             b2 == (v2 % 16) * 16 + (v3 \div 4)
             b3 == (v3 % 4) * 64 + v4
         IN  IF t[3] = 61 THEN <<b1>>
             ELSE IF t[4] = 61 THEN <<b1, b2>>
             ELSE <<b1, b2, b3>> \o B64Decode(SubSeq(t, 5, Len(t)))

IsBase64Of(t, text) ==
    /\ Len(t) = 4 * ((Len(UTF8Encode(text)) + 2) \div 3)
    /\ UTF8Decode(B64Decode(t)) = Ok(text)

\* C1: when upload_files_to_github has returned, uploaded_count + error_count
\* equals the number of input file records, every position has exactly one
\* recorded outcome, and results holds the successes and errors the rest.
C1_CountsAddUp ==
    Returned =>
        /\ report.uploaded_count + report.error_count = Len(files)
        /\ \A k \in 1..Len(files) : Cardinality(Outs(k)) = 1
        /\ Len(report.results) = Cardinality(Successes(Len(trace)))
        /\ Len(report.errors) = Cardinality(Failures(Len(trace)))
        /\ report.uploaded_count = Len(report.results)
        /\ report.error_count = Len(report.errors)

\* A batch of two with one success and one exception has returned.
C1_Witness ==
    /\ Returned
    /\ Len(files) = 2
    /\ report.uploaded_count = 1
    /\ report.error_count = 1
    /\ report.errors[1].status = "exception"

\* C2: in the returned report success is true exactly when error_count is 0,
\* error_count counts the 'error' and the 'exception' outcomes alike, and a
\* batch with a failed file reports success = false whatever else succeeded.
C2_SuccessIffNoErrors ==
    Returned =>
        /\ report.success <=> report.error_count = 0
        /\ report.error_count =
             Cardinality({n \in Positions : trace[n].op = "OUT"
                                            /\ trace[n].status \in {"error", "exception"}})
        /\ (\E n \in Positions : trace[n].op = "OUT" /\ trace[n].status # "success")
             => report.success = FALSE

\* A batch with one file uploaded and one failed has returned success = false.
C2_Witness ==
    /\ Returned
    /\ report.uploaded_count = 1
    /\ report.error_count = 1
    /\ report.errors[1].status = "error"
    /\ ~report.success

\* C3: every write request is followed by the outcome of its response: a
\* call that raises, or a body that is not JSON, gives an 'exception' entry in
\* errors with the error message; otherwise status 200 or 201 gives a
\* 'success' entry in results with the response body, and any other status an
\* 'error' entry in errors with the response body and that status code.  A
\* raising existence check, and a record that cannot be prepared, give an
\* 'exception' entry with the error message as well.
C3_ResponseClassified ==
    /\ \A n \in Positions :
         trace[n].op = "PUT" =>
             /\ n < Len(trace)
             /\ trace[n + 1] = [op |-> "OUT", idx |-> trace[n].idx,
                                status |-> Classify(trace[n].resp)]
             /\ LET r == trace[n].resp
                    e == Entry(n + 1)
                IN  IF r.kind = "raise"
                    THEN e = [path |-> trace[n].path, status |-> "exception",
                              error |-> r.msg]
                    ELSE IF ~r.json
                    THEN e = [path |-> trace[n].path, status |-> "exception",
                              error |-> "Expecting value"]
                    ELSE IF r.status \in {200, 201}
                    THEN e = [path |-> trace[n].path, status |-> "success",
                              response |-> r.body]
                    ELSE e = [path |-> trace[n].path, status |-> "error",
                              error |-> r.body, status_code |-> r.status]
    /\ \A n \in Positions :
         (trace[n].op = "GET" /\ trace[n].resp.kind = "raise") =>
             /\ n < Len(trace)
             /\ trace[n + 1] = [op |-> "OUT", idx |-> trace[n].idx, status |-> "exception"]
             /\ Entry(n + 1) = [path |-> trace[n].path, status |-> "exception",
                                error |-> trace[n].resp.msg]
    /\ \A k \in 1..Len(files) :
         (Outs(k) # {} /\ Gets(k) = {}) =>
             \A n \in Outs(k) :
                 /\ trace[n].status = "exception"
                 /\ Entry(n).status = "exception"
                 /\ Entry(n).path = Get(files[k], "path", Unknown)
                 /\ Entry(n).error = PrepareData(files[k], message, branch).error

\* A write answered 409 has given an 'error' entry with status code 409, and
\* a write answered 201 a 'success' entry.
C3_Witness ==
    /\ Len(errors) = 1
    /\ errors[1].status = "error"
    /\ errors[1].status_code = 409
    /\ errors[1].error = [message |-> "conflict"]
    /\ Len(results) = 1
    /\ results[1].response = [content |-> "created"]

\* C4: a write request carries a sha exactly when the existence check of the
\* same position answered 200 with a sha field, and then it is that sha; after
\* a 404 the write goes without sha and, answered 201 with a JSON body, gives
\* the file a 'success' outcome.
C4_ShaFromOwnCheck ==
    \A n \in Positions :
        trace[n].op = "PUT" =>
            /\ Cardinality(Gets(trace[n].idx)) = 1
            /\ \A g \in Gets(trace[n].idx) :
                 LET r == trace[g].resp
                     found == r.kind = "resp" /\ r.status = 200 /\ r.json
                              /\ "sha" \in DOMAIN r.body
                 IN  /\ g < n
                     /\ trace[g].path = trace[n].path
                     /\ ("sha" \in DOMAIN trace[n].data) <=> found
                     /\ found => trace[n].data.sha = r.body.sha
                     /\ (r.kind = "resp" /\ r.status = 404) =>
                          /\ "sha" \notin DOMAIN trace[n].data
                          /\ (trace[n].resp = Resp(201, [content |-> "created"])
                                => trace[n + 1].status = "success")

\* The first file existed with sha s2, which its write carried; the second
\* did not exist, its write went without sha and, answered 201, succeeded.
C4_Witness ==
    /\ Returned
    /\ Len(trace) = 6
    /\ trace[1].op = "GET"
    /\ trace[1].resp = Resp(200, [sha |-> "s2"])
    /\ trace[2].op = "PUT"
    /\ trace[2].data.sha = "s2"
    /\ trace[4].op = "GET"
    /\ trace[4].resp = Resp(404, [message |-> "Not Found"])
    /\ trace[5].op = "PUT"
    /\ "sha" \notin DOMAIN trace[5].data
    /\ trace[5].resp = Resp(201, [content |-> "created"])
    /\ trace[6].op = "OUT"
    /\ trace[6].status = "success"

\* Whether a file record can be prepared (lines 42-56 raise nothing).
Preparable == [f \in FileRecords |-> PrepareData(f, "", "").ok]

\* C5: the call never stops short of its return (in every state before it a
\* step is enabled), every file the loop has passed has an outcome, and every
\* file whose record can be prepared had its existence check attempted, whatever
\* the outcomes of the files before it; the call ends by returning the report.
C5_BatchNeverAborts ==
    /\ pc # "done" => ENABLED Next
    /\ \A k \in 1..Len(files) :
         (k < i \/ Returned) =>
             /\ Outs(k) # {}
             /\ Preparable[files[k]] => Gets(k) # {}
    /\ Returned =>
         /\ i = Len(files) + 1
         /\ report = [success |-> Len(errors) = 0, results |-> results, errors |-> errors,
                      uploaded_count |-> Len(results), error_count |-> Len(errors)]

\* The first file ended in an exception and the second was checked and
\* written all the same.
C5_Witness ==
    /\ Returned
    /\ Len(files) = 2
    /\ \E n \in Outs(1) : trace[n].status = "exception"
    /\ Gets(2) # {}
    /\ Puts(2) # {}

\* What may come next in the trace after event a: after a GET its own PUT or
\* its outcome, after a PUT its outcome, after an outcome the next position's
\* GET or (for a record that cannot be prepared) outcome.
Follows(a, b) ==
    IF a.op = "GET" THEN b.idx = a.idx /\ b.op \in {"PUT", "OUT"}
    ELSE IF a.op = "PUT" THEN b.idx = a.idx /\ b.op = "OUT"
    ELSE b.idx = a.idx + 1 /\ b.op \in {"GET", "OUT"}

\* C7: the trace runs through the positions in input order and holds for each
\* at most one GET, then at most one PUT, which only follows that position's
\* GET, then its outcome: no request is repeated, and no request of a position
\* is made before the outcome of the position before it is recorded.
C7_SequentialNoRetry ==
    /\ Len(trace) > 0 => (trace[1].idx = 1 /\ trace[1].op \in {"GET", "OUT"})
    /\ \A n \in 2..Len(trace) : Follows(trace[n - 1], trace[n])
    /\ \A n \in Positions : trace[n].idx \in 1..Len(files)

\* Two files were checked and written one after the other.
C7_Witness ==
    /\ Len(trace) = 6
    /\ trace[1].op = "GET" /\ trace[1].idx = 1
    /\ trace[2].op = "PUT" /\ trace[2].idx = 1
    /\ trace[3].op = "OUT" /\ trace[3].status = "error"
    /\ trace[4].op = "GET" /\ trace[4].idx = 2
    /\ trace[5].op = "PUT" /\ trace[5].idx = 2
    /\ trace[6].op = "OUT"

\* C8: the content of a write request is the record's content as it is when
\* its encoding is "base64", and the base64 encoding of the record's content
\* when its encoding is "utf-8" or the key is absent; the message and the
\* branch of the request are those of the call.
C8_ContentEncoding ==
    \A n \in Positions :
        trace[n].op = "PUT" =>
            LET f == files[trace[n].idx]
                d == trace[n].data
            IN  /\ d.message = message
                /\ d.branch = branch
                /\ ("encoding" \in DOMAIN f /\ f.encoding = "base64")
                     => d.content = f.content
                /\ ("encoding" \notin DOMAIN f \/ f.encoding = "utf-8")
                     => IsBase64Of(d.content, f.content)
                /\ f.content = <<77, 97, 110>> => d.content = <<84, 87, 70, 117>>

\* "Man" was sent as "TWFu", and content that was base64 already as it was.
C8_Witness ==
    /\ Len(trace) >= 5
    /\ trace[2].op = "PUT"
    /\ files[1] = [path |-> <<"a.txt">>, content |-> <<77, 97, 110>>, encoding |-> "utf-8"]
    /\ trace[2].data.content = <<84, 87, 70, 117>>
    /\ trace[5].op = "PUT"
    /\ files[2] = [path |-> <<"c.bin">>, content |-> <<84, 87, 70, 117>>,
                   encoding |-> "base64"]
    /\ trace[5].data.content = files[2].content
    /\ trace[5].data.message = "Update docs"
    /\ trace[5].data.branch = "dev"

\* The existence check was answered, and gave no revision identifier.
NoShaObtained(r) ==
    r.kind = "resp" /\ (r.status # 200 \/ ~r.json \/ "sha" \notin DOMAIN r.body)

\* C10 as stated: whenever the existence check of a file was answered without
\* a revision identifier (a status other than 200, or 200 with a body that has
\* no sha field), the write request of that file is issued without sha and the
\* file's outcome is that of the write response.
C10_AbsentShaIgnored ==
    \A n \in Positions :
        (trace[n].op = "GET" /\ NoShaObtained(trace[n].resp) /\ Outs(trace[n].idx) # {}) =>
            \E m \in Puts(trace[n].idx) :
                /\ "sha" \notin DOMAIN trace[m].data
                /\ trace[m + 1].op = "OUT"
                /\ trace[m + 1].status = Classify(trace[m].resp)

\* C10 as amended: whenever the existence check was answered with a status
\* other than 200, the write request is issued without sha and the file's
\* outcome is that of the write response; when it was answered 200 with a body
\* that has no sha field, no write request is issued and the file's outcome is
\* 'exception'.
C10_AbsentShaIgnoredUnless200 ==
    \A n \in Positions :
        (trace[n].op = "GET" /\ NoShaObtained(trace[n].resp) /\ Outs(trace[n].idx) # {}) =>
            IF trace[n].resp.status # 200
            THEN \E m \in Puts(trace[n].idx) :
                     /\ "sha" \notin DOMAIN trace[m].data
                     /\ trace[m + 1].op = "OUT"
                     /\ trace[m + 1].status = Classify(trace[m].resp)
            ELSE /\ Puts(trace[n].idx) = {}
                 /\ \A o \in Outs(trace[n].idx) :
                      /\ trace[o].status = "exception"
                      /\ Entry(o) = [path |-> trace[n].path, status |-> "exception",
                                     error |-> "'sha'"]

\* A check answered 404 was followed by a write without sha whose 409 decided
\* the outcome, and a check answered 200 without sha ended in an exception.
C10_Witness ==
    /\ Returned
    /\ Len(trace) = 5
    /\ trace[1].op = "GET"
    /\ trace[1].resp = Resp(404, [message |-> "Not Found"])
    /\ trace[2].op = "PUT"
    /\ "sha" \notin DOMAIN trace[2].data
    /\ trace[2].resp = Resp(409, [message |-> "conflict"])
    /\ trace[3].op = "OUT"
    /\ trace[3].status = "error"
    /\ trace[4].op = "GET"
    /\ trace[4].resp = Resp(200, [entries |-> "listing"])
    /\ trace[5].op = "OUT"
    /\ trace[5].status = "exception"

\* The scanner has returned its list.
ScanDone == pc \notin {"scan", "raised"}

Unreadable(tree) == {it \in RegularFiles(tree) : ~UTF8Decode(it.bytes).ok}

NoBackslash(str) == \A k \in 1..Len(str) : str[k] # "\\"

\* The file's path relative to the root, after the names of the remote
\* prefix, joined with forward slashes.
ExpectedPath(it) == StrPath(Parts(remote, sep) \o it.rel, "/")

PathsOf(it, p) == {k \in 1..Len(files) : files[k].path = p}

\* C6: a run of initialize_github_upload over a directory that holds a file
\* which is not UTF-8 text does not raise: it returns a report that has an
\* 'exception' entry, and the other files are uploaded.
C6_ReadFailureCaptured ==
    (entry = "initialize_github_upload" /\ Unreadable(fs) # {}) =>
        /\ pc # "raised"
        /\ Returned =>
             /\ \E k \in 1..Len(report.errors) : report.errors[k].status = "exception"
             /\ \A it \in RegularFiles(fs) \ Unreadable(fs) :
                  \E n \in Positions :
                      /\ trace[n].op = "GET"
                      /\ trace[n].path = RemotePath(remote, it.rel, sep)

====
